---- MODULE Spec2Model ----
\* A state-machine model of psd::load (itsypsd.cpp): the bounds-checked byte
\* cursor, the header and layer-record parser, the raw / run-length channel
\* decoder, the layer-tree reconstruction and the compositor.
\*
\* The byte buffer is read strictly front to back, so the model keeps the
\* read position (offset), the buffer end (e) and draws the value of every
\* field at the moment the code reads it.  Pointers are taken to be 64 bits
\* wide and the lengths read from the file 32 bits, so `i + amt` does not wrap
\* for any length read with read32.
EXTENDS Integers, Sequences, FiniteSets, TLC

\* ---------------------------------------------------------------- bounds
MaxLayers == 3        \* largest layer count drawn for the layer-info block
MaxChannels == 2      \* largest channel count drawn for a layer record
MaxBytes == 4         \* largest channel count * box area of a layer record
MaxStream == 4        \* longest run-length stream drawn for one channel
PriorDim == 7         \* canvas width and height of the psd object before the call

\* ------------------------------------------------------ program constants
SentinelName == "</Layer group>"
GroupFlags == 24

\* ------------------------------------------------------------ input sets
\* big-endian bytes of a field holding n, as they lie in the file
Word32(n) == <<(n \div 16777216) % 256, (n \div 65536) % 256, (n \div 256) % 256, n % 256>>
Word16(n) == <<(n \div 256) % 256, n % 256>>

Sig8BPS == <<56, 66, 80, 83>>
Sig8BIM == <<56, 66, 73, 77>>
SigWords == {Sig8BPS, Sig8BIM}
VersionWords == {Word16(1), Word16(2)}
DepthWords == {Word16(8), Word16(16)}
ModeWords == {Word16(3), Word16(1)}
Dims == {1, 2}
BlockLens == {0, 2, 65536}
SkipLens == {0, 65536}
ExtraPads == {4}
CountWords == {Word16(n) : n \in 0..MaxLayers} \cup {<<255, 255>>}
KindWords == {Word16(0), Word16(1), <<255, 255>>, <<255, 254>>}
CompWords == {Word16(0), Word16(1), Word16(2)}
FlagBytes == {0, 8, 24}
Names == {"Folder", SentinelName, "B"}
DataBytes == {1, 2}
CtlBytes == {0, 1, 128, 255}
EmptyBox == [top |-> 0, left |-> 0, bot |-> 0, right |-> 0]
Boxes == { EmptyBox,
           [top |-> 1, left |-> 0, bot |-> 2, right |-> 2],
           [top |-> 1, left |-> 1, bot |-> 3, right |-> 2],
           [top |-> 0, left |-> 1, bot |-> 1, right |-> 3] }
\* buffer lengths: empty, ending inside each section of the file, and one
\* that no drawn document exhausts
BufSizes == {0, 17, 34, 51, 68, 85, 102, 400}

VARIABLES pc, result, e, offset, width, height, layers, raw_layers,
          i, ch, comp, stream, location, under, layer, ndebug

\* pc          where psd::load stands
\* result      "running", then what the call gave its caller: "true", "false",
\*             the thrown "Truncated PSD" or "bad_alloc", or "abort" / "crash"
\*             when the process died in assert(0) or in a fault
\* e, offset   the buffer end and the read position, as byte indices
\* width, height, layers     the members of the psd object
\* raw_layers, i, ch, comp, location, layer     the locals of psd::load
\* stream      the bytes of the buffer that the current channel's image data
\*             has consumed (after the jump table of a run-length channel)
\* ndebug      TRUE once an assert(0) has been passed, which shows that the
\*             build defines NDEBUG; an assert aborts only while it is FALSE

vars == <<pc, result, e, offset, width, height, layers, raw_layers,
          i, ch, comp, stream, location, under, layer, ndebug>>

\* --------------------------------------------------------- byte cursor
\* read32 / read16: big-endian value of the bytes at the read position
BE(bytes) ==
    LET F[k \in 0..Len(bytes)] == IF k = 0 THEN 0 ELSE F[k - 1] * 256 + bytes[k]
    IN F[Len(bytes)]

\* the test `i + n > e || i + n < i` of read32, read16, read8 and skip
Truncated(pos, n) == pos + n > e

\* (int16_t) of a value returned by read16
ToInt16(v) == IF v >= 32768 THEN v - 65536 ELSE v

\* a run of reads and skips of the given widths, each checked against e:
\* the position of the first one that does not fit, or the final position
RECURSIVE ReadAll(_, _)
ReadAll(pos, widths) ==
    IF widths = <<>> THEN [ok |-> TRUE, pos |-> pos]
    ELSE IF Truncated(pos, Head(widths)) THEN [ok |-> FALSE, pos |-> pos]
    ELSE ReadAll(pos + Head(widths), Tail(widths))

\* throw "Truncated PSD" with the read position left at pos
Throw(pos) ==
    /\ pc' = "done"
    /\ result' = "Truncated PSD"
    /\ offset' = pos

\* return false after the reads up to pos
ReturnFalse(pos) ==
    /\ pc' = "done"
    /\ result' = "false"
    /\ offset' = pos

\* the call has read the file into v (lines 75-83); the psd object holds a
\* PriorDim x PriorDim canvas and no layers
Init ==
    /\ pc = "signature"
    /\ result = "running"
    /\ e \in BufSizes
    /\ offset = 0
    /\ width = PriorDim
    /\ height = PriorDim
    /\ layers = <<>>
    /\ raw_layers = <<>>
    /\ i = 0
    /\ ch = 0
    /\ comp = 0
    /\ stream = <<>>
    /\ location = <<>>
    /\ under = 0
    /\ layer = 0
    /\ ndebug = FALSE

\* ------------------------------------------------------------ file header
CheckSignature ==
    /\ pc = "signature"
    /\ IF Truncated(offset, 4) THEN Throw(offset)
       ELSE \E sig \in SigWords :
            IF BE(sig) # BE(Sig8BPS) THEN ReturnFalse(offset + 4)
            ELSE pc' = "version" /\ offset' = offset + 4 /\ UNCHANGED result
    /\ UNCHANGED <<e, width, height, layers, raw_layers, i, ch, comp, stream,
                   location, under, layer, ndebug>>

CheckVersion ==
    /\ pc = "version"
    /\ IF Truncated(offset, 2) THEN Throw(offset)
       ELSE \E v \in VersionWords :
            IF BE(v) # 1 THEN ReturnFalse(offset + 2)
            ELSE pc' = "canvas" /\ offset' = offset + 2 /\ UNCHANGED result
    /\ UNCHANGED <<e, width, height, layers, raw_layers, i, ch, comp, stream,
                   location, under, layer, ndebug>>

\* skip 6, channels = read16, height = read32, width = read32
ReadCanvas ==
    /\ pc = "canvas"
    /\ LET r1 == ReadAll(offset, <<6, 2>>)
           r2 == ReadAll(r1.pos, <<4>>)
           r3 == ReadAll(r2.pos, <<4>>)
       IN \E h \in Dims, w \in Dims :
          /\ height' = IF r1.ok /\ r2.ok THEN BE(Word32(h)) ELSE height
          /\ width' = IF r1.ok /\ r2.ok /\ r3.ok THEN BE(Word32(w)) ELSE width
          /\ IF r1.ok /\ r2.ok /\ r3.ok
             THEN pc' = "depth" /\ offset' = r3.pos /\ UNCHANGED result
             ELSE Throw(IF ~r1.ok THEN r1.pos ELSE IF ~r2.ok THEN r2.pos ELSE r3.pos)
    /\ UNCHANGED <<e, layers, raw_layers, i, ch, comp, stream,
                   location, under, layer, ndebug>>

CheckDepth ==
    /\ pc = "depth"
    /\ IF Truncated(offset, 2) THEN Throw(offset)
       ELSE \E d \in DepthWords :
            IF BE(d) # 8 THEN ReturnFalse(offset + 2)
            ELSE pc' = "mode" /\ offset' = offset + 2 /\ UNCHANGED result
    /\ UNCHANGED <<e, width, height, layers, raw_layers, i, ch, comp, stream,
                   location, under, layer, ndebug>>

CheckColorMode ==
    /\ pc = "mode"
    /\ IF Truncated(offset, 2) THEN Throw(offset)
       ELSE \E m \in ModeWords :
            IF BE(m) # 3 THEN ReturnFalse(offset + 2)
            ELSE pc' = "blocks" /\ offset' = offset + 2 /\ UNCHANGED result
    /\ UNCHANGED <<e, width, height, layers, raw_layers, i, ch, comp, stream,
                   location, under, layer, ndebug>>

\* a length-prefixed block that is skipped: read32, then skip(length)
SkipBlock(lens, nextpc) ==
    \E len \in lens :
       LET r == ReadAll(offset, <<4, BE(Word32(len))>>)
       IN IF r.ok THEN pc' = nextpc /\ offset' = r.pos /\ UNCHANGED result
          ELSE Throw(r.pos)

SkipColorModeData ==
    /\ pc = "blocks"
    /\ SkipBlock(BlockLens, "resources")
    /\ UNCHANGED <<e, width, height, layers, raw_layers, i, ch, comp, stream,
                   location, under, layer, ndebug>>

SkipImageResources ==
    /\ pc = "resources"
    /\ SkipBlock(SkipLens, "layerinfo")
    /\ UNCHANGED <<e, width, height, layers, raw_layers, i, ch, comp, stream,
                   location, under, layer, ndebug>>

\* an empty raw layer, as raw_layers.resize(count) creates it
BlankLayer == [top |-> 0, left |-> 0, bot |-> 0, right |-> 0, name |-> "",
               is_group |-> FALSE, channels |-> <<>>]

\* the first raw layer at or after index k that has a channel, 0 if none
RECURSIVE NextWithChannels(_, _)
NextWithChannels(rl, k) ==
    IF k > Len(rl) THEN 0
    ELSE IF Len(rl[k].channels) > 0 THEN k
    ELSE NextWithChannels(rl, k + 1)

\* layerMaskSection = read32, layersLength = read32, count = (int16_t)read16,
\* count = -count when negative, raw_layers.resize(count)
ReadLayerInfo ==
    /\ pc = "layerinfo"
    /\ LET r == ReadAll(offset, <<4, 4, 2>>)
       IN IF ~r.ok
          THEN Throw(r.pos) /\ UNCHANGED <<raw_layers, i, ch, layer>>
          ELSE \E cw \in CountWords :
               LET c == ToInt16(BE(cw))
                   count == IF c < 0 THEN -c ELSE c
               IN /\ raw_layers' = [k \in 1..count |-> BlankLayer]
                  /\ offset' = r.pos
                  /\ i' = IF count > 0 THEN 1 ELSE 0
                  /\ ch' = 0
                  /\ layer' = count
                  /\ pc' = IF count > 0 THEN "record" ELSE "tree"
                  /\ UNCHANGED result
    /\ UNCHANGED <<e, width, height, layers, comp, stream, location, under, ndebug>>

\* flags & mask
RECURSIVE BitAnd(_, _)
BitAnd(a, b) ==
    IF a = 0 \/ b = 0 THEN 0
    ELSE (a % 2) * (b % 2) + 2 * BitAnd(a \div 2, b \div 2)

\* the layer name field: len = 1 + read8, len - 1 name bytes, then padding
\* bytes while (len & 3)
NameField(name) ==
    LET len == 1 + Len(name)
    IN <<1>> \o [k \in 1..Len(name) |-> 1] \o [k \in 1..((4 - (len % 4)) % 4) |-> 1]

Sum(widths) ==
    LET F[k \in 0..Len(widths)] == IF k = 0 THEN 0 ELSE F[k - 1] + widths[k]
    IN F[Len(widths)]

Area(box) == (box.bot - box.top) * (box.right - box.left)

\* the layer records drawn: only a single-layer document carries channels,
\* on a non-group layer, and a record's channels hold at most MaxBytes bytes
ChannelCounts == IF Len(raw_layers) = 1 THEN 0..MaxChannels ELSE {0}
BoxesFor(nch) == IF nch = 0 THEN {EmptyBox} ELSE {b \in Boxes : nch * Area(b) <= MaxBytes}
NamesFor(nch) == IF nch = 0 THEN Names ELSE {"B"}
FlagsFor(nch) == IF nch = 0 THEN FlagBytes ELSE FlagBytes \ {GroupFlags}

\* where the channel image data loop goes after channel c of raw layer k
AfterChannel(rl, k, c) ==
    IF c < Len(rl[k].channels) THEN [i |-> k, ch |-> c + 1]
    ELSE [i |-> NextWithChannels(rl, k + 1), ch |-> 1]

\* one iteration of the layer record loop (lines 139-188).  The extra-data
\* length drawn covers the fields read inside it, so end_extradata - offset
\* is never negative.  A record that throws or returns false leaves
\* raw_layers as it was: the fields already stored in the local are lost
\* with it.
LayerRecord ==
    /\ pc = "record"
    /\ \E nch \in ChannelCounts, sig \in SigWords, mlen \in SkipLens,
          blen \in SkipLens, pad \in ExtraPads :
       \E box \in BoxesFor(nch), kinds \in [1..nch -> KindWords],
          name \in NamesFor(nch), flags \in FlagsFor(nch) :
       LET chanw == [k \in 1..(2 * nch) |-> IF k % 2 = 1 THEN 2 ELSE 4]
           r1 == ReadAll(offset, <<4, 4, 4, 4, 2>> \o chanw \o <<4>>)
           r2 == ReadAll(r1.pos, <<4, 1, 1, 1, 1, 4>>)
           inner == <<4, BE(Word32(mlen)), 4, BE(Word32(blen))>> \o NameField(name)
           len_extradata == BE(Word32(Sum(inner) + pad))
           end_extradata == r2.pos + len_extradata
           r3 == ReadAll(r2.pos, inner)
           r4 == ReadAll(r3.pos, <<end_extradata - r3.pos>>)
           rec == [top |-> BE(Word32(box.top)), left |-> BE(Word32(box.left)),
                   bot |-> BE(Word32(box.bot)), right |-> BE(Word32(box.right)),
                   name |-> name,
                   is_group |-> BitAnd(flags, GroupFlags) = GroupFlags,
                   channels |-> [k \in 1..nch |->
                                   [kind |-> ToInt16(BE(kinds[k])), data |-> <<>>]]]
           rl == [raw_layers EXCEPT ![i] = rec]
       IN IF ~r1.ok THEN Throw(r1.pos) /\ UNCHANGED <<raw_layers, i, ch>>
          ELSE IF BE(sig) # BE(Sig8BIM)
               THEN ReturnFalse(r1.pos) /\ UNCHANGED <<raw_layers, i, ch>>
          ELSE IF ~r2.ok THEN Throw(r2.pos) /\ UNCHANGED <<raw_layers, i, ch>>
          ELSE IF ~r3.ok THEN Throw(r3.pos) /\ UNCHANGED <<raw_layers, i, ch>>
          ELSE IF ~r4.ok THEN Throw(r4.pos) /\ UNCHANGED <<raw_layers, i, ch>>
          ELSE /\ raw_layers' = rl
               /\ offset' = r4.pos
               /\ UNCHANGED result
               /\ IF i < Len(raw_layers)
                  THEN pc' = "record" /\ i' = i + 1 /\ ch' = 0
                  ELSE LET k == NextWithChannels(rl, 1)
                       IN /\ i' = k
                          /\ ch' = IF k = 0 THEN 0 ELSE 1
                          /\ pc' = IF k = 0 THEN "tree" ELSE "channel"
    /\ UNCHANGED <<e, width, height, layers, comp, stream, location, under,
                   layer, ndebug>>

\* leave channel ch of raw layer i with its data and go to the next channel
\* of the channel image data loop, or on to the reconstruction
FinishChannel(data) ==
    LET rl == [raw_layers EXCEPT ![i].channels[ch].data = data]
        nx == AfterChannel(rl, i, ch)
    IN /\ raw_layers' = rl
       /\ i' = nx.i
       /\ ch' = IF nx.i = 0 THEN 0 ELSE nx.ch
       /\ pc' = IF nx.i = 0 THEN "tree" ELSE "channel"
       /\ UNCHANGED result

\* comp = read16 and the switch on it (lines 196-228) up to the RLE loop
ChannelTag ==
    /\ pc = "channel"
    /\ LET L == raw_layers[i]
           h == L.bot - L.top
           w == L.right - L.left
           data == L.channels[ch].data
       IN IF Truncated(offset, 2)
          THEN Throw(offset) /\ UNCHANGED <<raw_layers, i, ch, comp, stream, ndebug>>
          ELSE \E cw \in CompWords :
               /\ comp' = BE(cw)
               /\ CASE BE(cw) = 0 ->
                       \* std::copy of width * height bytes, not checked
                       \* against e: past the end it reads whatever lies
                       \* there, or faults
                       \E bytes \in [1..(w * h) -> DataBytes] :
                          \/ /\ offset' = offset + 2 + w * h
                             /\ stream' = bytes
                             /\ FinishChannel(data \o bytes)
                             /\ UNCHANGED ndebug
                          \/ /\ offset + 2 + w * h > e
                             /\ pc' = "done"
                             /\ result' = "crash"
                             /\ offset' = offset + 2
                             /\ UNCHANGED <<raw_layers, i, ch, stream, ndebug>>
                    [] BE(cw) = 1 ->
                       \* offset += 2 * height, not checked against e
                       /\ offset' = offset + 2 + 2 * h
                       /\ stream' = <<>>
                       /\ UNCHANGED ndebug
                       /\ IF Len(data) < w * h
                          THEN pc' = "rle" /\ UNCHANGED <<raw_layers, i, ch, result>>
                          ELSE FinishChannel(data)
                    [] OTHER ->
                       \* assert(0): aborts, or is compiled out under NDEBUG
                       /\ offset' = offset + 2
                       /\ stream' = <<>>
                       /\ \/ ndebug' = TRUE /\ FinishChannel(data)
                          \/ /\ ~ndebug
                             /\ pc' = "done"
                             /\ result' = "abort"
                             /\ UNCHANGED <<raw_layers, i, ch, ndebug>>
    /\ UNCHANGED <<e, width, height, layers, location, under, layer>>

\* a run-length control byte as the uint8_t arithmetic of lines 211-217
\* takes it: the number of bytes the run appends
LiteralCount(len) == (len + 1) % 256
RepeatCountShort(len) == (0 - len) % 256
RepeatCount(len) == (1 - len) % 256

\* one iteration of the RLE loop (lines 209-222)
RleStep ==
    /\ pc = "rle"
    /\ LET L == raw_layers[i]
           area == (L.right - L.left) * (L.bot - L.top)
           data == L.channels[ch].data
           Continue(d) ==
               IF Len(d) < area
               THEN /\ raw_layers' = [raw_layers EXCEPT ![i].channels[ch].data = d]
                    /\ UNCHANGED <<pc, i, ch, result>>
               ELSE FinishChannel(d)
       IN IF Truncated(offset, 1)
          THEN Throw(offset) /\ UNCHANGED <<raw_layers, i, ch, stream>>
          ELSE \E len \in CtlBytes :
               IF len < 128
               THEN LET n == LiteralCount(len)
                        r == ReadAll(offset + 1, [k \in 1..n |-> 1])
                    IN /\ Len(stream) + 1 + n <= MaxStream
                       /\ IF ~r.ok
                          THEN Throw(r.pos) /\ UNCHANGED <<raw_layers, i, ch, stream>>
                          ELSE \E bytes \in [1..n -> DataBytes] :
                               /\ offset' = r.pos
                               /\ stream' = stream \o <<len>> \o bytes
                               /\ Continue(data \o bytes)
               ELSE IF len > 128
               THEN /\ Len(stream) + 2 <= MaxStream
                    /\ IF Truncated(offset + 1, 1)
                       THEN Throw(offset + 1) /\ UNCHANGED <<raw_layers, i, ch, stream>>
                       ELSE \E repeated \in DataBytes :
                            /\ offset' = offset + 2
                            /\ stream' = stream \o <<len, repeated>>
                            /\ Continue(data \o [k \in 1..RepeatCount(len) |-> repeated])
               ELSE /\ Len(stream) + 1 <= MaxStream
                    /\ offset' = offset + 1
                    /\ stream' = stream \o <<len>>
                    /\ Continue(data)
    /\ UNCHANGED <<e, width, height, layers, comp, location, under, layer, ndebug>>

\* ------------------------------------------------------------ compositor
\* uint32_t values are kept as two's-complement integers: -1 stands for
\* 0xFFFFFFFF, so that y-- below zero and bot - 1 of a zero bot wrap.
U32Less(a, b) == IF (a < 0) = (b < 0) THEN a < b ELSE b < 0

RECURSIVE BitOr(_, _)
BitOr(a, b) ==
    IF a = 0 THEN b
    ELSE IF b = 0 THEN a
    ELSE (IF a % 2 = 1 \/ b % 2 = 1 THEN 1 ELSE 0) + 2 * BitOr(a \div 2, b \div 2)

Shl(v, n) == v * 2 ^ n

\* the bit position of a channel kind (lines 256-265), -1 when the channel
\* is ignored
KindShiftAlphaLow(kind) ==
    IF kind >= 0 /\ kind <= 2 THEN kind * 8
    ELSE IF kind = -1 THEN 2 * 8
    ELSE -1

KindShift(kind) ==
    IF kind >= 0 /\ kind <= 2 THEN kind * 8
    ELSE IF kind = -1 THEN 3 * 8
    ELSE -1

\* the while loop of lines 267-274 from byte n of the channel data on
RECURSIVE PutBytes(_, _, _, _, _, _, _)
PutBytes(pixels, L, data, n, x, y, shift) ==
    IF n > Len(data) THEN pixels
    ELSE LET color == data[n]
             put == IF U32Less(x, width) /\ U32Less(y, height)
                    THEN [pixels EXCEPT ![x + y * width + 1] = BitOr(@, Shl(color, shift))]
                    ELSE pixels
             wrap == ~U32Less(x + 1, L.right)
         IN PutBytes(put, L, data, n + 1,
                     IF wrap THEN L.left ELSE x + 1,
                     IF wrap THEN y - 1 ELSE y, shift)

\* the channel loop of lines 252-275 from channel c on
RECURSIVE PutChannels(_, _, _)
PutChannels(pixels, L, c) ==
    IF c > Len(L.channels) THEN pixels
    ELSE LET shift == KindShift(L.channels[c].kind)
         IN PutChannels(IF shift < 0 THEN pixels
                        ELSE PutBytes(pixels, L, L.channels[c].data, 1,
                                      L.left, L.bot - 1, shift),
                        L, c + 1)

\* pixels.resize(width * height, 0) and the channels merged into it
Composite(L) == PutChannels([k \in 1..(width * height) |-> 0], L, 1)

\* ------------------------------------------------ layer tree reconstruction
\* location.push_back(name) (line 240)
PushBackDropped(loc, name) == loc
PushBack(loc, name) == Append(loc, name)

\* location.pop_back() on a vector that holds an element (line 238)
PopBackKept(loc) == loc
PopBack(loc) == SubSeq(loc, 1, Len(loc) - 1)

\* One iteration of the loop of lines 235-276.  `location` holds the
\* elements of the vector; `under` counts how far pop_back on an empty vector
\* has moved its end below its begin (undefined behaviour: the call faults,
\* or the end pointer is decremented and the run goes on).  While the end is
\* below the begin, push_back writes outside the storage and moves the end
\* back up, and copying the vector asks for a wrapped-around size, which
\* throws from the allocation after layers.push_back has been done.
Reconstruct ==
    /\ pc = "tree"
    /\ layer >= 1
    /\ LET L == raw_layers[layer]
           Crash == /\ pc' = "done"
                    /\ result' = "crash"
                    /\ UNCHANGED <<layers, location, under, layer>>
           Step == /\ layer' = layer - 1
                   /\ UNCHANGED <<pc, result>>
       IN IF L.is_group
          THEN IF L.name = SentinelName
               THEN IF Len(location) > 0 /\ under = 0
                    THEN /\ location' = PopBack(location)
                         /\ Step
                         /\ UNCHANGED <<layers, under>>
                    ELSE \/ Crash
                         \/ /\ under' = under + 1
                            /\ Step
                            /\ UNCHANGED <<layers, location>>
               ELSE IF under = 0
                    THEN /\ location' = PushBack(location, L.name)
                         /\ Step
                         /\ UNCHANGED <<layers, under>>
                    ELSE \/ Crash
                         \/ /\ under' = under - 1
                            /\ Step
                            /\ UNCHANGED <<layers, location>>
          ELSE IF under = 0
               THEN /\ layers' = Append(layers,
                                   [name |-> Append(location, L.name),
                                    width |-> width, height |-> height,
                                    pixels |-> Composite(L)])
                    /\ Step
                    /\ UNCHANGED <<location, under>>
               ELSE \/ Crash
                    \/ /\ layers' = Append(layers,
                                      [name |-> <<>>, width |-> 0, height |-> 0,
                                       pixels |-> <<>>])
                       /\ pc' = "done"
                       /\ result' = "bad_alloc"
                       /\ UNCHANGED <<location, under, layer>>
    /\ UNCHANGED <<e, offset, width, height, raw_layers, i, ch, comp, stream, ndebug>>

\* return true (line 279)
ReturnTrue ==
    /\ pc = "tree"
    /\ layer = 0
    /\ pc' = "done"
    /\ result' = "true"
    /\ UNCHANGED <<e, offset, width, height, layers, raw_layers, i, ch, comp,
                   stream, location, under, layer, ndebug>>

Next ==
    \/ CheckSignature
    \/ CheckVersion
    \/ ReadCanvas
    \/ CheckDepth
    \/ CheckColorMode
    \/ SkipColorModeData
    \/ SkipImageResources
    \/ ReadLayerInfo
    \/ LayerRecord
    \/ ChannelTag
    \/ RleStep
    \/ Reconstruct
    \/ ReturnTrue

Spec == Init /\ [][Next]_vars

\* =================================================================== claims
Done == pc = "done"
Succeeded == pc = "done" /\ result = "true"
Failures == {"false", "Truncated PSD", "bad_alloc", "abort", "crash"}

\* a step that completes channel ch of raw layer i
CompletesChannel == pc \in {"channel", "rle"} /\ pc' \in {"channel", "tree"}

\* the indices of the non-group raw layers, last stored first: the raw layer
\* of each output layer, in output order
RECURSIVE LeavesFrom(_, _)
LeavesFrom(rl, k) ==
    IF k = 0 THEN <<>>
    ELSE IF rl[k].is_group THEN LeavesFrom(rl, k - 1)
    ELSE <<k>> \o LeavesFrom(rl, k - 1)

\* C1: the read position never exceeds the buffer end.
C1_PositionWithinBuffer == offset <= e

\* C2: a channel whose raw or run-length decoding completes holds exactly
\* (bottom - top) * (right - left) bytes.
C2_ChannelLengthIsArea ==
    [][(CompletesChannel /\ comp' \in {0, 1})
         => Len(raw_layers'[i].channels[ch].data) = Area(raw_layers[i])]_vars

\* C3: a closing sentinel processed while the group stack is empty makes the
\* decode fail, with the stack not popped below empty.
C3_PopOnEmptyFails ==
    [][(/\ pc = "tree"
        /\ layer >= 1
        /\ raw_layers[layer].is_group
        /\ raw_layers[layer].name = SentinelName
        /\ Len(location) = 0)
         => (pc' = "done" /\ result' \in Failures /\ under' = 0)]_vars

\* ---- C4
IsOpener(rl, k) == rl[k].is_group /\ rl[k].name # SentinelName
IsCloser(rl, k) == rl[k].is_group /\ rl[k].name = SentinelName
Openers(rl, lo, hi) == Cardinality({k \in lo..hi : IsOpener(rl, k)})
Closers(rl, lo, hi) == Cardinality({k \in lo..hi : IsCloser(rl, k)})

\* the markers of raw layers lo..n, read from n down, never close a group
\* that is not open
WellNested(rl, lo) ==
    \A m \in lo..Len(rl) : Closers(rl, m, Len(rl)) <= Openers(rl, m, Len(rl))

\* the opening marker j, read before raw layer k, is still open at k
OpenAt(rl, j, k) ==
    /\ j > k
    /\ IsOpener(rl, j)
    /\ \A m \in (k + 1)..(j - 1) : Closers(rl, m, j - 1) <= Openers(rl, m, j - 1)

\* the names of the groups open at raw layer k, outermost (highest index) first
RECURSIVE OpenNames(_, _, _)
OpenNames(rl, j, k) ==
    IF j <= k THEN <<>>
    ELSE (IF OpenAt(rl, j, k) THEN <<rl[j].name>> ELSE <<>>) \o OpenNames(rl, j - 1, k)

\* C4: with well-nested markers, the output holds one layer per non-group raw
\* layer processed so far, in processing order, each with the path made of the
\* names of the groups open at it, outermost first, then its own name.
C4_PathsFollowNesting ==
    (/\ pc = "tree" \/ Succeeded
     /\ WellNested(raw_layers, layer + 1))
      => LET leaves == SelectSeq(LeavesFrom(raw_layers, Len(raw_layers)),
                                 LAMBDA k : k > layer)
         IN /\ Len(layers) = Len(leaves)
            /\ \A t \in 1..Len(leaves) :
                 layers[t].name =
                   OpenNames(raw_layers, Len(raw_layers), leaves[t])
                     \o <<raw_layers[leaves[t]].name>>

C4_Witness ==
    /\ Succeeded
    /\ Len(raw_layers) = 3
    /\ IsOpener(raw_layers, 3)
    /\ IsCloser(raw_layers, 2)
    /\ ~raw_layers[1].is_group
    /\ Len(layers) = 1
    /\ layers[1].name = <<raw_layers[1].name>>

\* ---- C5
\* C5 as stated: stored as A = group "Folder", B = non-group, C = closing
\* sentinel, the decode succeeds with the single path <<"Folder", B's name>>.
C5_FolderFirstStored ==
    (/\ Done
     /\ Len(raw_layers) = 3
     /\ raw_layers[1].is_group /\ raw_layers[1].name = "Folder"
     /\ ~raw_layers[2].is_group
     /\ IsCloser(raw_layers, 3))
      => /\ result = "true"
         /\ Len(layers) = 1
         /\ layers[1].name = <<"Folder", raw_layers[2].name>>

\* C5 amended: stored as A = closing sentinel, B = non-group, C = group
\* "Folder", so that "Folder" is processed first and the sentinel last, the
\* decode succeeds with the single path <<"Folder", B's name>>.
C5_SentinelFirstStored ==
    (/\ Done
     /\ Len(raw_layers) = 3
     /\ IsCloser(raw_layers, 1)
     /\ ~raw_layers[2].is_group
     /\ raw_layers[3].is_group /\ raw_layers[3].name = "Folder")
      => /\ result = "true"
         /\ Len(layers) = 1
         /\ layers[1].name = <<"Folder", raw_layers[2].name>>

C5_Witness ==
    /\ Succeeded
    /\ Len(raw_layers) = 3
    /\ IsCloser(raw_layers, 1)
    /\ ~raw_layers[2].is_group /\ raw_layers[2].name = "B"
    /\ raw_layers[3].is_group /\ raw_layers[3].name = "Folder"
    /\ location = <<>>

\* C6: a decode that ends in a failure leaves the document's width, height
\* and layer list as they were before the call.
C6_FailureLeavesDocument ==
    (Done /\ result \in Failures)
      => (width = PriorDim /\ height = PriorDim /\ layers = <<>>)

\* C7: a compression tag other than 0 and 1 ends the decode at that point
\* without success.
C7_BadCompressionFails ==
    [][(pc = "channel" /\ offset' = offset + 2 /\ comp' \notin {0, 1})
         => (pc' = "done" /\ result' \in Failures)]_vars

\* ---- C8, C9
InBox(L, x, y) == x >= L.left /\ x < L.right /\ y >= L.top /\ y < L.bot

\* C8: after a successful decode every output layer's pixel buffer is
\* canvas-sized and zero outside its raw layer's bounding box.
C8_ZeroOutsideBox ==
    Succeeded =>
      LET leaves == LeavesFrom(raw_layers, Len(raw_layers))
      IN \A t \in 1..Len(layers) :
           /\ Len(layers[t].pixels) = width * height
           /\ t <= Len(leaves) =>
                \A x \in 0..(width - 1), y \in 0..(height - 1) :
                   ~InBox(raw_layers[leaves[t]], x, y)
                     => layers[t].pixels[x + y * width + 1] = 0

\* the slot of a channel kind as C9 states it
SlotOf(kind) == CASE kind \in {0, 1, 2} -> kind * 8
                  [] kind = -1 -> 24
                  [] OTHER -> -1

\* what channel c of raw layer L gives the pixel at (x, y): the byte k with
\* x = left + k mod w and y = bottom - 1 - k div w, shifted into its slot
Contribution(L, c, x, y) ==
    LET w == L.right - L.left
        k == (L.bot - 1 - y) * w + (x - L.left)
    IN IF SlotOf(L.channels[c].kind) >= 0 /\ InBox(L, x, y)
       THEN L.channels[c].data[k + 1] * 2 ^ SlotOf(L.channels[c].kind)
       ELSE 0

RECURSIVE OrOfChannels(_, _, _, _)
OrOfChannels(L, c, x, y) ==
    IF c = 0 THEN 0
    ELSE BitOr(OrOfChannels(L, c - 1, x, y), Contribution(L, c, x, y))

FullChannels(L) ==
    \A c \in 1..Len(L.channels) : Len(L.channels[c].data) = Area(L)

\* C9: for an output layer whose channels each hold exactly the box area,
\* every canvas pixel is the OR of the bytes that target it, each shifted
\* into the slot of its channel kind; other kinds and bytes that target a
\* place outside the canvas change nothing.
C9_PixelsAreOrOfChannels ==
    Succeeded =>
      LET leaves == LeavesFrom(raw_layers, Len(raw_layers))
      IN \A t \in 1..Len(layers) :
           (t <= Len(leaves) /\ FullChannels(raw_layers[leaves[t]]))
             => /\ Len(layers[t].pixels) = width * height
                /\ \A x \in 0..(width - 1), y \in 0..(height - 1) :
                     layers[t].pixels[x + y * width + 1] =
                       OrOfChannels(raw_layers[leaves[t]],
                                    Len(raw_layers[leaves[t]].channels), x, y)

C9_Witness ==
    /\ Succeeded
    /\ Len(layers) = 1
    /\ FullChannels(raw_layers[1])
    /\ Len(raw_layers[1].channels) = 2
    /\ raw_layers[1].channels[1].kind = -1
    /\ raw_layers[1].channels[2].kind = 1
    /\ Area(raw_layers[1]) = 2
    /\ \E p \in 1..Len(layers[1].pixels) : layers[1].pixels[p] = 2 * 2 ^ 24 + 1 * 2 ^ 8
    /\ \E p \in 1..Len(layers[1].pixels) : layers[1].pixels[p] = 0

\* ---- C10
\* the reference PackBits decoder over a whole stream
RECURSIVE PackBits(_)
PackBits(s) ==
    IF s = <<>> THEN <<>>
    ELSE LET c == Head(s)
             rest == Tail(s)
         IN IF c < 128
            THEN LET n == IF c + 1 <= Len(rest) THEN c + 1 ELSE Len(rest)
                 IN SubSeq(rest, 1, n) \o PackBits(SubSeq(rest, n + 1, Len(rest)))
            ELSE IF c > 128
            THEN IF rest = <<>> THEN <<>>
                 ELSE [k \in 1..(257 - c) |-> Head(rest)] \o PackBits(Tail(rest))
            ELSE PackBits(rest)

\* C10: a run-length channel whose runs sum exactly to the area decodes to
\* what the reference PackBits decoder gives for the bytes it consumed, and a
\* raw channel to the bytes it consumed.
C10_AgreesWithPackBits ==
    [][(/\ CompletesChannel
        /\ comp' \in {0, 1}
        /\ Len(raw_layers'[i].channels[ch].data) = Area(raw_layers[i]))
         => raw_layers'[i].channels[ch].data =
              (IF comp' = 0 THEN stream' ELSE PackBits(stream'))]_vars

C10_Witness ==
    /\ pc = "tree"
    /\ comp = 1
    /\ Len(raw_layers) = 1
    /\ Len(raw_layers[1].channels) = 1
    /\ stream = <<128, 255, 2>>
    /\ raw_layers[1].channels[1].data = <<2, 2>>
====
